---- MODULE Spec2Model ----
(***************************************************************************)
(* Model of opentelemetry-sdk/src/trace/provider.rs: the TracerProvider    *)
(* handle (an Arc of the inner state plus an Arc of the atomic shutdown    *)
(* flag), its builder with the process-wide resource cache, explicit       *)
(* shutdown and force_flush, tracer creation with the no-op fallback, and  *)
(* the teardown run when the inner state is dropped.                       *)
(*                                                                         *)
(* Atomics are modelled as sequentially consistent cells.  Every await of  *)
(* a processor future is split into an invoke step and a resolve step, so  *)
(* other tasks and threads interleave between them.                        *)
(***************************************************************************)
EXTENDS Integers, Sequences, FiniteSets, TLC

\* ------------------------------------------------------------------ bounds
MaxProcs   == 2   \* processors added to one builder
MaxHandles == 2   \* live handles (user clones and tracers) at one time
MaxOps     == 2   \* shutdown() calls, force_flush() calls and span starts in one run
MaxBuilds  == 2   \* Builder::build calls in one run of SpecBuild

\* ------------------------------------------------------------------ values
NoResource == "none"
Resources  == {"unknown_service", "test_service"}
StaticResources == {"static_service"}
EmptyResource == "empty"

NoHandle == [inner |-> -1, flag |-> -1, owner |-> "none", origin |-> -1,
             post_shutdown |-> FALSE]
NoopId == 0

Ok == [ok |-> TRUE, err |-> ""]
Err(msg) == [ok |-> FALSE, err |-> msg]
NotReturned == [ok |-> FALSE, err |-> "pending"]
NoPending == [ok |-> TRUE, err |-> "no future"]

RECURSIVE BoundedSeq(_, _)
BoundedSeq(S, n) ==
    IF n = 0 THEN {<<>>}
    ELSE LET shorter == BoundedSeq(S, n - 1)
         IN  shorter \cup {Append(s, x) : s \in {t \in shorter : Len(t) = n - 1}, x \in S}

\* --------------------------------------------------------------- variables
VARIABLES
    PROVIDER_RESOURCE,  \* the OnceCell: NoResource while empty, else the resource
    is_shutdown,        \* flag id -> value of that Arc<AtomicBool>
    inner,              \* inner id -> TracerProviderInner (id 0 is the no-op one)
    processor,          \* inner id -> sequence of the processor objects' states
    handle,             \* slot -> TracerProvider handle held by a user or a tracer
    call,               \* the shutdown()/force_flush() calls made so far
    task,               \* inner id -> the future spawned by the inner state's drop
    handled_errors,     \* errors passed to global::handle_error, in order
    spans               \* outcome of every span start made so far

vars == <<PROVIDER_RESOURCE, is_shutdown, inner, processor, handle, call, task,
          handled_errors, spans>>

\* ------------------------------------------------- the test span processor
\* TestSpanProcessor::new(success), with counters of the calls it receives.
NewProcessor(success) ==
    [success |-> success, started_span |-> 0, is_shutdown |-> FALSE,
     set_resource |-> 0, resource |-> NoResource, set_order |-> 0,
     shutdown_explicit |-> 0, shutdown_drop |-> 0]

Processor_on_start(p) == [p EXCEPT !.started_span = @ + 1]

Processor_force_flush(p) == IF p.success THEN Ok ELSE Err("cannot export")

\* returns the processor after the call and the call's result
Processor_shutdown(p) ==
    IF p.is_shutdown
    THEN [self |-> p, result |-> Ok]
    ELSE [self |-> [p EXCEPT !.is_shutdown = TRUE], result |-> Processor_force_flush(p)]

\* set_resource(resource), as the nth set_resource call of one build()
Processor_set_resource(p, resource, nth) ==
    [p EXCEPT !.set_resource = @ + 1, !.resource = resource, !.set_order = nth]

\* ------------------------------------------------------------ static state
\* a no-op provider whose flag was left false
MutNoopNotShutDown ==
    [inner |-> [processors |-> <<>>,
                config |-> [resource |-> [cow |-> "Owned", val |-> EmptyResource,
                                          storage |-> "own"]],
                supplied |-> [cow |-> "Owned", val |-> EmptyResource, storage |-> "own"],
                live |-> TRUE],
     is_shutdown |-> FALSE]

NOOP_TRACER_PROVIDER ==
    [inner |-> [processors |-> <<>>,
                config |-> [resource |-> [cow |-> "Owned", val |-> EmptyResource,
                                          storage |-> "own"]],
                supplied |-> [cow |-> "Owned", val |-> EmptyResource, storage |-> "own"],
                live |-> TRUE],
     is_shutdown |-> TRUE]

NoTask == [pc |-> "none", processors |-> <<>>, idx |-> 0, pending |-> NoPending]

\* the process before any provider is built
InitStatic ==
    /\ PROVIDER_RESOURCE = NoResource
    /\ is_shutdown = (NoopId :> NOOP_TRACER_PROVIDER.is_shutdown)
    /\ inner = (NoopId :> NOOP_TRACER_PROVIDER.inner)
    /\ processor = (NoopId :> <<>>)
    /\ handle = [h \in 1..MaxHandles |-> NoHandle]
    /\ call = <<>>
    /\ task = (NoopId :> NoTask)
    /\ handled_errors = <<>>
    /\ spans = <<>>

\* ----------------------------------------------------------------- helpers
Built == Cardinality(DOMAIN inner) - 1

Live(h) == handle[h] # NoHandle

FreeSlots == {h \in 1..MaxHandles : ~Live(h)}

\* the slot a new handle is put in
NewSlot == CHOOSE h \in FreeSlots : \A g \in FreeSlots : h <= g

\* strong count of the Arc<TracerProviderInner>; the static holds the no-op one
StrongCount(i) ==
    Cardinality({h \in 1..MaxHandles : Live(h) /\ handle[h].inner = i})
        + (IF i = NoopId THEN 1 ELSE 0)

\* a call that has not returned borrows the handle it was made on (h is the
\* borrowed slot, 0 once the call has returned)
Borrowed(h) == \E c \in 1..Len(call) : call[c].pc # "done" /\ call[c].h = h

\* the loop `for p in &mut processors`, from the k-th processor on
RECURSIVE SetFrom(_, _, _)
SetFrom(ps, resource, k) ==
    IF k > Len(ps) THEN ps
    ELSE SetFrom([ps EXCEPT ![k] = Processor_set_resource(@, resource, k)], resource, k + 1)

\* the processors visited last to first
MutSetAllReversed(ps, resource) ==
    [k \in 1..Len(ps) |-> Processor_set_resource(ps[k], resource, Len(ps) + 1 - k)]

SetAll(ps, resource) == SetFrom(ps, resource, 1)

\* ---------------------------------------------------------- Builder::build
\* an occupied cache is reused without comparing the contents
MutInternReusePrev(resource, cache) ==
    IF resource.cow = "Owned"
    THEN [resource |-> [cow |-> "Borrowed",
                        val |-> IF cache = NoResource THEN resource.val ELSE cache,
                        storage |-> "PROVIDER_RESOURCE"],
          cache |-> IF cache = NoResource THEN resource.val ELSE cache]
    ELSE [resource |-> resource, cache |-> cache]

\* the cache is set to every owned resource that is built
MutInternOverwrite(resource, cache) ==
    IF resource.cow = "Owned"
    THEN [resource |-> [cow |-> "Borrowed", val |-> resource.val,
                        storage |-> "PROVIDER_RESOURCE"],
          cache |-> resource.val]
    ELSE [resource |-> resource, cache |-> cache]

\* The resource the built provider's config holds, and the cache afterwards.
InternResource(resource, cache) ==
    IF resource.cow = "Owned"
    THEN IF cache = NoResource
         THEN [resource |-> [cow |-> "Borrowed", val |-> resource.val,
                             storage |-> "PROVIDER_RESOURCE"],
               cache |-> resource.val]
         ELSE IF cache = resource.val
              THEN [resource |-> [cow |-> "Borrowed", val |-> cache,
                                  storage |-> "PROVIDER_RESOURCE"],
                    cache |-> cache]
              ELSE [resource |-> [cow |-> "Owned", val |-> resource.val,
                                  storage |-> "own"],
                    cache |-> cache]
    ELSE [resource |-> resource, cache |-> cache]

\* TracerProvider::new: fresh Arcs for the inner state and the flag
\* (owner, origin and post_shutdown record who holds the handle and, for a
\* tracer, the provider it was requested from and the flag value at that time)
TracerProvider_new(id) == [inner |-> id, flag |-> id, owner |-> "user", origin |-> id,
                           post_shutdown |-> FALSE]

BuilderResources ==
    [cow : {"Owned"}, val : Resources, storage : {"own"}]
        \cup [cow : {"Borrowed"}, val : StaticResources, storage : {"static"}]

\* build() of a builder holding processors with the given outcomes and the
\* given config resource, while the cache holds `cache`: the cache afterwards,
\* the processors after set_resource, the inner state and the returned handle
\* (supplied records the resource the builder was given)
build(successes, resource, cache, id) ==
    LET interned == InternResource(resource, cache)
        processors == SetAll([k \in 1..Len(successes) |-> NewProcessor(successes[k])],
                             interned.resource)
    IN  [cache |-> interned.cache,
         processors |-> processors,
         inner |-> [processors |-> [k \in 1..Len(processors) |-> k],
                    config |-> [resource |-> interned.resource],
                    supplied |-> resource,
                    live |-> TRUE],
         handle |-> TracerProvider_new(id)]

Build(successes, resource) ==
    /\ Built < MaxBuilds
    /\ FreeSlots # {}
    /\ LET id == Built + 1
           b == build(successes, resource, PROVIDER_RESOURCE, id)
       IN  /\ PROVIDER_RESOURCE' = b.cache
           /\ processor' = processor @@ (id :> b.processors)
           /\ inner' = inner @@ (id :> b.inner)
           /\ is_shutdown' = is_shutdown @@ (id :> FALSE)
           /\ task' = task @@ (id :> NoTask)
           /\ handle' = [handle EXCEPT ![NewSlot] = b.handle]
    /\ UNCHANGED <<call, handled_errors, spans>>

\* Config::default() holds the owned default resource
DefaultResource == [cow |-> "Owned", val |-> "unknown_service", storage |-> "own"]

\* one provider built with the default config and any processors
Init ==
    \E successes \in BoundedSeq(BOOLEAN, MaxProcs) :
        LET b == build(successes, DefaultResource, NoResource, 1)
        IN  /\ PROVIDER_RESOURCE = b.cache
            /\ is_shutdown = (NoopId :> NOOP_TRACER_PROVIDER.is_shutdown) @@ (1 :> FALSE)
            /\ inner = (NoopId :> NOOP_TRACER_PROVIDER.inner) @@ (1 :> b.inner)
            /\ processor = (NoopId :> <<>>) @@ (1 :> b.processors)
            /\ handle = [h \in 1..MaxHandles |-> IF h = 1 THEN b.handle ELSE NoHandle]
            /\ call = <<>>
            /\ task = (NoopId :> NoTask) @@ (1 :> NoTask)
            /\ handled_errors = <<>>
            /\ spans = <<>>

\* ------------------------------------------------- Clone for TracerProvider
\* #[derive(Clone)]: both Arcs are cloned, nothing is copied
CloneHandle(hd) == [inner |-> hd.inner, flag |-> hd.flag, owner |-> "user",
                    origin |-> hd.inner, post_shutdown |-> FALSE]

Clone(h) ==
    /\ Live(h)
    /\ handle[h].owner = "user"
    /\ FreeSlots # {}
    /\ handle' = [handle EXCEPT ![NewSlot] = CloneHandle(handle[h])]
    /\ UNCHANGED <<PROVIDER_RESOURCE, is_shutdown, inner, processor, call, task,
                   handled_errors, spans>>

\* ------------------------------------------- Drop for TracerProviderInner
\* the teardown run at the drop of any handle
MutLastReferenceAny(h) == handle[h].inner # NoopId

\* whether dropping handle h drops the inner state it points to
\* the teardown run when the last handle held by the user goes, tracers
\* not counted
MutLastReferenceUser(h) ==
    /\ handle[h].inner # NoopId
    /\ handle[h].owner = "user"
    /\ Cardinality({g \in 1..MaxHandles :
                       /\ Live(g) /\ handle[g].owner = "user"
                       /\ handle[g].inner = handle[h].inner}) = 1

LastReference(h) == handle[h].inner # NoopId /\ StrongCount(handle[h].inner) = 1

\* the processors are dropped without being shut down
MutSpawnNothing(processors) ==
    [pc |-> "done", processors |-> processors, idx |-> 1, pending |-> NoPending]

\* spawn_future(async move { for processor in processors { .. } })
SpawnedTask(processors) ==
    [pc |-> IF Len(processors) = 0 THEN "done" ELSE "loop",
     processors |-> processors, idx |-> 1, pending |-> NoPending]

\* the error is dropped
MutHandleErrorSwallow(sink, result) == sink

\* if let Err(err) = .. { global::handle_error(err) }
HandleError(sink, result) == IF result.ok THEN sink ELSE Append(sink, result.err)

Drop(h) ==
    /\ Live(h)
    /\ ~Borrowed(h)
    /\ handle' = [handle EXCEPT ![h] = NoHandle]
    /\ LET i == handle[h].inner
       IN  IF LastReference(h)
           THEN /\ inner' = [inner EXCEPT ![i].processors = <<>>, ![i].live = FALSE]
                /\ task' = [task EXCEPT ![i] = SpawnedTask(inner[i].processors)]
           ELSE UNCHANGED <<inner, task>>
    /\ UNCHANGED <<PROVIDER_RESOURCE, is_shutdown, processor, call, handled_errors, spans>>

\* the spawned future calls processor.shutdown()
TaskInvoke(i) ==
    /\ task[i].pc = "loop"
    /\ LET k == task[i].processors[task[i].idx]
           r == Processor_shutdown(processor[i][k])
       IN  /\ processor' = [processor EXCEPT ![i][k] =
                               [r.self EXCEPT !.shutdown_drop = @ + 1]]
           /\ task' = [task EXCEPT ![i].pc = "await", ![i].pending = r.result]
    /\ UNCHANGED <<PROVIDER_RESOURCE, is_shutdown, inner, handle, call,
                   handled_errors, spans>>

\* the awaited shutdown resolves; an error goes to global::handle_error
TaskResolve(i) ==
    /\ task[i].pc = "await"
    /\ handled_errors' = HandleError(handled_errors, task[i].pending)
    /\ task' = [task EXCEPT ![i].pc = IF task[i].idx = Len(task[i].processors)
                                      THEN "done" ELSE "loop",
                            ![i].idx = @ + 1,
                            ![i].pending = NoPending]
    /\ UNCHANGED <<PROVIDER_RESOURCE, is_shutdown, inner, processor, handle, call, spans>>

\* ------------------------------------------------------ accessors (95-109)
span_processors(hd) == inner[hd.inner].processors

config(hd) == inner[hd.inner].config

\* is_shutdown() that never reports the shutdown
MutIsShutdownNever(hd) == FALSE

TracerProvider_is_shutdown(hd) == is_shutdown[hd.flag]

\* ------------------------------------------------ TracerProvider::shutdown
\* AtomicBool::compare_exchange(current, new) on a cell holding v
\* an exchange that succeeds whatever the cell holds
MutExchangeAlways(v, current, new) == [ok |-> TRUE, val |-> new]

\* a toggle of the cell in place of the exchange
MutExchangeToggle(v, current, new) == [ok |-> TRUE, val |-> ~v]

\* the exchange called with current and new swapped
MutExchangeSwapped(v, current, new) ==
    IF v = new THEN [ok |-> TRUE, val |-> current] ELSE [ok |-> FALSE, val |-> v]

\* the comparison without the store
MutExchangeNoStore(v, current, new) == [ok |-> v = current, val |-> v]

compare_exchange(v, current, new) ==
    IF v = current THEN [ok |-> TRUE, val |-> new] ELSE [ok |-> FALSE, val |-> v]

\* Debug rendering of the collected errors, as format!("{errs:?}") gives it
DebugError(e) == "Other(Custom(" \o e \o "))"

RECURSIVE DebugList(_)
DebugList(errs) ==
    IF Len(errs) = 0 THEN ""
    ELSE IF Len(errs) = 1 THEN DebugError(errs[1])
    ELSE DebugError(errs[1]) \o ", " \o DebugList(Tail(errs))

FormatErrs(errs) == "[" \o DebugList(errs) \o "]"

\* a repeated shutdown reported as a success
MutAlreadyShutDownOk == Ok

AlreadyShutDown == Err("tracer provider already shut down")

\* only the first failure is reported
MutShutdownResultFirst(errs) ==
    IF errs = <<>> THEN Ok ELSE Err(FormatErrs(<<errs[1]>>))

ShutdownResult(errs) == IF errs = <<>> THEN Ok ELSE Err(FormatErrs(errs))

NewCall(op, h, path, n) ==
    [op |-> op, h |-> IF n = 0 THEN 0 ELSE h, inner |-> handle[h].inner, flag |-> handle[h].flag,
     path |-> path, pc |-> IF n = 0 THEN "done" ELSE "loop",
     invoked |-> <<>>, pending |-> NoPending, errs |-> <<>>, results |-> <<>>,
     ret |-> NotReturned]

\* the call's first poll: the compare-exchange, and the return of a loser or of
\* a winner whose collection is empty
Shutdown(h) ==
    /\ Live(h)
    /\ handle[h].owner = "user"
    /\ Len(call) + Len(spans) < MaxOps
    /\ LET f == handle[h].flag
           x == compare_exchange(is_shutdown[f], FALSE, TRUE)
           n == Len(span_processors(handle[h]))
       IN  /\ is_shutdown' = [is_shutdown EXCEPT ![f] = x.val]
           /\ call' = Append(call,
                  IF x.ok
                  THEN [NewCall("shutdown", h, "winner", n) EXCEPT
                           !.ret = IF n = 0 THEN ShutdownResult(<<>>) ELSE NotReturned]
                  ELSE [NewCall("shutdown", h, "loser", 0) EXCEPT !.ret = AlreadyShutDown])
    /\ UNCHANGED <<PROVIDER_RESOURCE, inner, processor, handle, task, handled_errors, spans>>

\* the next processor shut down while an earlier shutdown is pending
MutShutdownMayInvokeAlways(c) == TRUE

\* the for loop reaches the next processor when the awaited shutdown resolved
ShutdownMayInvoke(c) == call[c].pc = "loop"

\* processor.shutdown() is called on the next processor of the collection
ShutdownInvoke(c) ==
    /\ call[c].op = "shutdown"
    /\ call[c].pc # "done"
    /\ Len(call[c].invoked) < Len(inner[call[c].inner].processors)
    /\ ShutdownMayInvoke(c)
    /\ LET i == call[c].inner
           k == inner[i].processors[Len(call[c].invoked) + 1]
           r == Processor_shutdown(processor[i][k])
       IN  /\ processor' = [processor EXCEPT ![i][k] =
                               [r.self EXCEPT !.shutdown_explicit = @ + 1]]
           /\ call' = [call EXCEPT ![c].pc = "await", ![c].pending = r.result,
                                   ![c].invoked = Append(@, k)]
    /\ UNCHANGED <<PROVIDER_RESOURCE, is_shutdown, inner, handle, task,
                   handled_errors, spans>>

\* the awaited shutdown resolves (results keeps every outcome, errs the
\* errors the code collects); after the last one the call returns
ShutdownResolve(c) ==
    /\ call[c].op = "shutdown"
    /\ call[c].pc = "await"
    /\ LET errs == IF call[c].pending.ok THEN call[c].errs
                   ELSE Append(call[c].errs, call[c].pending.err)
           last == Len(call[c].invoked) = Len(inner[call[c].inner].processors)
       IN  call' = [call EXCEPT ![c].errs = errs, ![c].pending = NoPending,
                                ![c].results = Append(@, call[c].pending),
                                ![c].pc = IF last THEN "done" ELSE "loop",
                                ![c].h = IF last THEN 0 ELSE @,
                                ![c].ret = IF last THEN ShutdownResult(errs) ELSE @]
    /\ UNCHANGED <<PROVIDER_RESOURCE, is_shutdown, inner, processor, handle, task,
                   handled_errors, spans>>

\* --------------------------------------------- TracerProvider::force_flush
\* StreamExt::then polls the stream for its next item only when no future of
\* an earlier item is pending
\* the next flush started while an earlier one is pending
MutFlushMayInvokeAlways(c) == TRUE

\* a flush that consults the shutdown flag before each processor
MutFlushGated(c) == call[c].pc = "loop" /\ ~is_shutdown[call[c].flag]

FlushMayInvoke(c) == call[c].pc = "loop"

\* the call ends at the first failed flush
MutFlushCollectedShort(results, n) ==
    Len(results) = n \/ \E k \in 1..Len(results) : ~results[k].ok

\* collect() ends when the stream is exhausted
FlushCollected(results, n) == Len(results) = n

ForceFlush(h) ==
    /\ Live(h)
    /\ handle[h].owner = "user"
    /\ Len(call) + Len(spans) < MaxOps
    /\ call' = Append(call, NewCall("force_flush", h, "flush",
                                    Len(span_processors(handle[h]))))
    /\ UNCHANGED <<PROVIDER_RESOURCE, is_shutdown, inner, processor, handle, task,
                   handled_errors, spans>>

FlushInvoke(c) ==
    /\ call[c].op = "force_flush"
    /\ call[c].pc # "done"
    /\ Len(call[c].invoked) < Len(inner[call[c].inner].processors)
    /\ FlushMayInvoke(c)
    /\ LET i == call[c].inner
           k == inner[i].processors[Len(call[c].invoked) + 1]
       IN  call' = [call EXCEPT ![c].pc = "await",
                                ![c].pending = Processor_force_flush(processor[i][k]),
                                ![c].invoked = Append(@, k)]
    /\ UNCHANGED <<PROVIDER_RESOURCE, is_shutdown, inner, processor, handle, task,
                   handled_errors, spans>>

FlushResolve(c) ==
    /\ call[c].op = "force_flush"
    /\ call[c].pc = "await"
    /\ LET results == Append(call[c].results, call[c].pending)
           n == Len(inner[call[c].inner].processors)
       IN  call' = [call EXCEPT ![c].results = results, ![c].pending = NoPending,
                                ![c].h = IF FlushCollected(results, n) THEN 0 ELSE @,
                                ![c].pc = IF FlushCollected(results, n)
                                          THEN "done" ELSE "loop"]
    /\ UNCHANGED <<PROVIDER_RESOURCE, is_shutdown, inner, processor, handle, task,
                   handled_errors, spans>>

\* ------------------------------------------ TracerProvider::library_tracer
NoopHandle == [inner |-> NoopId, flag |-> NoopId]

\* a tracer bound to the calling provider whatever its flag
MutTracerBindingNoCheck(hd) == [inner |-> hd.inner, flag |-> hd.flag]

\* the provider the new tracer is bound to
TracerBinding(hd) ==
    IF is_shutdown[hd.flag]
    THEN NoopHandle
    ELSE [inner |-> hd.inner, flag |-> hd.flag]

LibraryTracer(h) ==
    /\ Live(h)
    /\ handle[h].owner = "user"
    /\ FreeSlots # {}
    /\ LET b == TracerBinding(handle[h])
       IN  handle' = [handle EXCEPT ![NewSlot] =
                         [inner |-> b.inner, flag |-> b.flag, owner |-> "tracer",
                          origin |-> handle[h].inner,
                          post_shutdown |-> is_shutdown[handle[h].flag]]]
    /\ UNCHANGED <<PROVIDER_RESOURCE, is_shutdown, inner, processor, call, task,
                   handled_errors, spans>>

\* ------------------------------------------------------ Tracer span start
\* The tracer consults its provider's is_shutdown() and notifies the
\* processors of its provider only when it reads false.
StartSpan(h) ==
    /\ Live(h)
    /\ handle[h].owner = "tracer"
    /\ Len(call) + Len(spans) < MaxOps
    /\ LET hd == handle[h]
           recording == ~TracerProvider_is_shutdown(hd)
           ps == span_processors(hd)
       IN  /\ processor' =
                  IF recording
                  THEN [processor EXCEPT ![hd.inner] =
                           [k \in 1..Len(@) |->
                               IF \E j \in 1..Len(ps) : ps[j] = k
                               THEN Processor_on_start(@[k]) ELSE @[k]]]
                  ELSE processor
           /\ spans' = Append(spans, [origin |-> hd.origin, inner |-> hd.inner,
                                      recording |-> recording,
                                      flag |-> is_shutdown[hd.origin]])
    /\ UNCHANGED <<PROVIDER_RESOURCE, is_shutdown, inner, handle, call, task,
                   handled_errors>>

\* ------------------------------------------------------------ specification
Next ==
    \/ \E h \in 1..MaxHandles : Clone(h)
    \/ \E h \in 1..MaxHandles : Drop(h)
    \/ \E i \in DOMAIN task : TaskInvoke(i)
    \/ \E i \in DOMAIN task : TaskResolve(i)
    \/ \E h \in 1..MaxHandles : Shutdown(h)
    \/ \E c \in 1..Len(call) : ShutdownInvoke(c)
    \/ \E c \in 1..Len(call) : ShutdownResolve(c)
    \/ \E h \in 1..MaxHandles : ForceFlush(h)
    \/ \E c \in 1..Len(call) : FlushInvoke(c)
    \/ \E c \in 1..Len(call) : FlushResolve(c)
    \/ \E h \in 1..MaxHandles : LibraryTracer(h)
    \/ \E h \in 1..MaxHandles : StartSpan(h)

\* the lifecycle of one built provider
Spec == Init /\ [][Next]_vars

NextBuild ==
    \/ \E n \in 0..MaxProcs, resource \in BuilderResources :
           Build([k \in 1..n |-> TRUE], resource)
    \/ \E h \in 1..MaxHandles : Drop(h)
    \/ \E i \in DOMAIN task : TaskInvoke(i)
    \/ \E i \in DOMAIN task : TaskResolve(i)

\* providers built one after the other in one process
SpecBuild == InitStatic /\ [][NextBuild]_vars

\* the steps that decide when and how the teardown runs: handles and tracers
\* come and go, shutdown() is called, the spawned future advances
NextTeardown ==
    \/ \E h \in 1..MaxHandles : Clone(h)
    \/ \E h \in 1..MaxHandles : Drop(h)
    \/ \E h \in 1..MaxHandles : LibraryTracer(h)
    \/ \E h \in 1..MaxHandles : Shutdown(h)
    \/ \E c \in 1..Len(call) : ShutdownInvoke(c)
    \/ \E c \in 1..Len(call) : ShutdownResolve(c)
    \/ TaskInvoke(1)
    \/ TaskResolve(1)

\* one provider, when the runtime keeps polling the future spawned by the
\* teardown and the processors' shutdown futures resolve
FairSpec ==
    Init /\ [][NextTeardown]_vars /\ WF_vars(TaskInvoke(1)) /\ WF_vars(TaskResolve(1))

\* ------------------------------------------------------------------ claims
Calls == 1..Len(call)

ShutdownCalls(f) == {c \in Calls : call[c].op = "shutdown" /\ call[c].flag = f}

FlushCalls == {c \in Calls : call[c].op = "force_flush"}

Providers == DOMAIN inner \ {NoopId}

UserHandles(i) ==
    {h \in 1..MaxHandles : Live(h) /\ handle[h].owner = "user" /\ handle[h].inner = i}

\* the indices 1..n in order
Indices(n) == [k \in 1..n |-> k]

\* the processors of provider i configured to fail
Failing(i) == {k \in 1..Len(processor[i]) : ~processor[i][k].success}

\* C1: of the shutdown() calls made on the handles of one provider, exactly one
\* takes the winner path and returns success or the aggregated processor
\* error; every other call has returned the "already shut down" error.
Thm_C1_OneWinner ==
    \A f \in Providers :
        LET S == ShutdownCalls(f)
            W == {c \in S : call[c].path = "winner"}
        IN  /\ S # {} => Cardinality(W) = 1
            /\ \A c \in S \ W : call[c].pc = "done" /\ call[c].ret = AlreadyShutDown
            /\ \A c \in W : call[c].pc = "done" =>
                   /\ call[c].ret # AlreadyShutDown
                   /\ call[c].ret = Ok \/ call[c].ret = Err(FormatErrs(call[c].errs))

\* the clone (slot 2) called first and is still shutting processors down, the
\* second call has lost
Wit_C1_CloneWinsFirst ==
    /\ Len(call) = 2
    /\ call[1].op = "shutdown" /\ call[1].path = "winner" /\ call[1].h = 2
    /\ call[2].op = "shutdown" /\ call[2].path = "loser" /\ call[2].pc = "done"
    /\ Cardinality(UserHandles(1)) = 2

\* C2: every processor's shutdown() is invoked at most once in total, by the
\* explicit shutdown() and the drop-triggered teardown together.
CE_C2_AtMostOneProcessorShutdown ==
    \A i \in Providers : \A k \in 1..Len(processor[i]) :
        processor[i][k].shutdown_explicit + processor[i][k].shutdown_drop <= 1

\* C3: once the shared flag of a provider is true, no step (in particular no
\* span start through a tracer created before the shutdown) raises the number
\* of starts a processor of that provider has observed.
Thm_C3_NoStartAfterShutdown ==
    [][\A i \in Providers :
           is_shutdown[i] =>
               \A k \in 1..Len(processor[i]) :
                   processor'[i][k].started_span = processor[i][k].started_span]_vars

\* a span was started, after the shutdown, through a tracer that holds a clone
\* of the provider, and the provider's processors observed nothing
Wit_C3_StartAfterShutdown ==
    /\ \E j \in 1..Len(spans) :
           spans[j].inner = 1 /\ spans[j].flag /\ ~spans[j].recording
    /\ \E h \in 1..MaxHandles :
           Live(h) /\ handle[h].owner = "tracer" /\ handle[h].inner = 1
    /\ Len(processor[1]) >= 1

\* C4: a tracer requested from a provider whose flag is true is bound to the
\* no-op singleton, which is shut down and has no processors; the starts the
\* processors observe are exactly the recording starts of tracers bound to
\* their own provider, so a start on such a tracer reaches no processor.
Thm_C4_NoopAfterShutdown ==
    /\ is_shutdown[NoopId]
    /\ inner[NoopId].processors = <<>>
    /\ \A h \in 1..MaxHandles :
           Live(h) /\ handle[h].owner = "tracer" /\ handle[h].post_shutdown =>
               handle[h].inner = NoopId /\ handle[h].flag = NoopId
    /\ \A j \in 1..Len(spans) :
           spans[j].inner = NoopId \/ spans[j].flag => ~spans[j].recording
    /\ \A i \in Providers : \A k \in 1..Len(processor[i]) :
           processor[i][k].started_span =
               Cardinality({j \in 1..Len(spans) : spans[j].recording /\ spans[j].inner = i})

\* a span was started on a tracer requested after the shutdown
Wit_C4_SpanOnNoopTracer ==
    /\ \E h \in 1..MaxHandles :
           Live(h) /\ handle[h].owner = "tracer" /\ handle[h].post_shutdown
    /\ \E j \in 1..Len(spans) : spans[j].inner = NoopId /\ spans[j].origin = 1
    /\ Len(processor[1]) >= 1

\* C5: a force_flush() call invokes force_flush() once on every processor, in
\* collection order, and returns one result per processor, the i-th being the
\* outcome of the i-th processor, whether or not other processors fail.
Thm_C5_FlushFanOut ==
    \A c \in FlushCalls :
        LET i == call[c].inner
            n == Len(processor[i])
        IN  /\ call[c].invoked = SubSeq(Indices(n), 1, Len(call[c].invoked))
            /\ call[c].pc = "done" =>
                   /\ call[c].invoked = Indices(n)
                   /\ Len(call[c].results) = n
                   /\ \A k \in 1..n :
                          call[c].results[k] =
                              IF processor[i][k].success THEN Ok ELSE Err("cannot export")

\* a flush of a failing processor followed by a succeeding one has returned
Wit_C5_FlushMixed ==
    \E c \in FlushCalls :
        /\ call[c].pc = "done"
        /\ Len(call[c].results) = 2
        /\ ~call[c].results[1].ok /\ call[c].results[2].ok

Thm_C7_WinnerAggregates ==
    \A c \in Calls :
        call[c].op = "shutdown" /\ call[c].path = "winner" /\ call[c].pc = "done" =>
            LET i == call[c].inner
                failed == [k \in 1..Cardinality(Failing(i)) |-> "cannot export"]
            IN  /\ call[c].invoked = Indices(Len(processor[i]))
                /\ call[c].ret.ok <=> Failing(i) = {}
                /\ Failing(i) # {} => call[c].ret = Err(FormatErrs(failed))

\* a winner returned the error of two failing processors
Wit_C7_TwoFailures ==
    \E c \in Calls :
        /\ call[c].op = "shutdown" /\ call[c].path = "winner" /\ call[c].pc = "done"
        /\ Cardinality(Failing(call[c].inner)) = 2
        /\ call[c].ret =
               Err("[Other(Custom(cannot export)), Other(Custom(cannot export))]")

\* C8: a shutdown() call made when the flag is already true returns the
\* "already shut down" error at once, with no processor error in it, and the
\* step changes neither the processors nor the flag; a returned call does
\* nothing afterwards.
Thm_C8_LoserTouchesNothing ==
    [][/\ \A c \in Calls : call[c].pc = "done" => call'[c] = call[c]
       /\ (/\ Len(call') = Len(call) + 1
           /\ call'[Len(call')].op = "shutdown"
           /\ is_shutdown[call'[Len(call')].flag])
              => /\ call'[Len(call')].pc = "done"
                 /\ call'[Len(call')].ret = Err("tracer provider already shut down")
                 /\ call'[Len(call')].invoked = <<>>
                 /\ call'[Len(call')].errs = <<>>
                 /\ processor' = processor
                 /\ is_shutdown' = is_shutdown]_vars

\* a call lost while the winner had shut down only the first of two processors
Wit_C8_LoserDuringShutdown ==
    /\ Len(call) = 2
    /\ call[1].path = "winner" /\ call[1].pc = "loop" /\ Len(call[1].invoked) = 1
    /\ call[2].path = "loser"
    /\ Len(processor[1]) = 2
    /\ ~processor[1][2].is_shutdown

\* C9: the flag of a built provider starts false, never goes from true to
\* false, and handles of one inner state share one flag cell.
Thm_C9_FlagMonotone ==
    /\ \A f \in Providers : ~is_shutdown[f]
    /\ [][/\ \A f \in DOMAIN is_shutdown : is_shutdown[f] => is_shutdown'[f]
          /\ \A h, g \in 1..MaxHandles :
                 (/\ handle'[h] # NoHandle
                  /\ handle'[g] # NoHandle
                  /\ handle'[h].inner = handle'[g].inner)
                     => /\ handle'[h].flag = handle'[g].flag
                        /\ is_shutdown'[handle'[h].flag] = is_shutdown'[handle'[g].flag]]_vars

\* a second shutdown() was called on a provider with two handles after the
\* flag had become true
Wit_C9_FlagStaysTrue ==
    /\ is_shutdown[1]
    /\ Len(call) = 2 /\ call[2].op = "shutdown"
    /\ Cardinality(UserHandles(1)) = 2

\* C10: the teardown has started, or has invoked shutdown() on a processor,
\* only when no handle of the inner state (user clone or tracer) is left; while
\* one is left, a processor is shut down only by an explicit shutdown().
Thm_C10_TeardownAfterLastHandle ==
    \A i \in Providers :
        /\ task[i].pc # "none" => StrongCount(i) = 0
        /\ inner[i].live <=> StrongCount(i) > 0
        /\ \A k \in 1..Len(processor[i]) :
               /\ processor[i][k].shutdown_drop > 0 => StrongCount(i) = 0
               /\ processor[i][k].is_shutdown =>
                      processor[i][k].shutdown_explicit > 0 \/ StrongCount(i) = 0

\* the user's handle is dropped, a tracer still holds a clone, and a span
\* started through it reached the processor
Wit_C10_TracerKeepsAlive ==
    /\ UserHandles(1) = {}
    /\ \E h \in 1..MaxHandles :
           Live(h) /\ handle[h].owner = "tracer" /\ handle[h].inner = 1
    /\ task[1].pc = "none"
    /\ Len(processor[1]) >= 1
    /\ \A k \in 1..Len(processor[1]) :
           ~processor[1][k].is_shutdown /\ processor[1][k].started_span = 1

\* C11: the drop of the last handle only spawns the teardown (the step invokes
\* no processor and reports no error), and the spawned future, scheduled
\* fairly, ends after invoking shutdown() on every processor of the collection.
Thm_C11_TeardownCompletes ==
    /\ [][(task[1].pc = "none" /\ task'[1].pc # "none") =>
              /\ processor' = processor
              /\ handled_errors' = handled_errors
              /\ task'[1].processors = inner[1].processors
              /\ task'[1].pending = NoPending]_vars
    /\ (task[1].pc # "none") ~>
           (/\ task[1].pc = "done"
            /\ \A k \in 1..Len(processor[1]) : processor[1][k].shutdown_drop = 1)

\* the teardown of a provider with two processors has ended
Wit_C11_TeardownDone ==
    /\ task[1].pc = "done"
    /\ Len(processor[1]) = 2
    /\ \A k \in 1..2 : processor[1][k].shutdown_drop = 1 /\ processor[1][k].is_shutdown

\* C12: a provider built with an owned resource holds a resource of exactly
\* the supplied content: borrowed from the cache when the cache holds equal
\* content, and its own owned value when the cache holds something else.
Thm_C12_ResourceContentKept ==
    \A i \in Providers :
        LET r == inner[i].config.resource
            s == inner[i].supplied
        IN  s.cow = "Owned" =>
                /\ r.val = s.val
                /\ IF s.val = PROVIDER_RESOURCE
                   THEN r.cow = "Borrowed" /\ r.storage = "PROVIDER_RESOURCE"
                   ELSE r.cow = "Owned" /\ r.storage = "own"

\* the second provider was built with a resource other than the cached one of
\* the first and holds its own content
Wit_C12_SecondKeepsOwn ==
    /\ Built = 2
    /\ inner[1].config.resource =
           [cow |-> "Borrowed", val |-> "unknown_service", storage |-> "PROVIDER_RESOURCE"]
    /\ inner[2].supplied = [cow |-> "Owned", val |-> "test_service", storage |-> "own"]
    /\ inner[2].config.resource.val = "test_service"

\* C13: the cache is empty at first; a build with an owned resource fills an
\* empty cache with that resource; a filled cache never changes; a build with
\* a borrowed static resource and every step that is no build leave it alone.
Thm_C13_CacheFillOnce ==
    /\ PROVIDER_RESOURCE = NoResource
    /\ [][/\ PROVIDER_RESOURCE # NoResource => PROVIDER_RESOURCE' = PROVIDER_RESOURCE
          /\ IF Cardinality(DOMAIN inner') > Cardinality(DOMAIN inner)
             THEN LET s == inner'[Built + 1].supplied
                  IN  IF s.cow = "Borrowed"
                      THEN PROVIDER_RESOURCE' = PROVIDER_RESOURCE
                      ELSE PROVIDER_RESOURCE = NoResource => PROVIDER_RESOURCE' = s.val
             ELSE PROVIDER_RESOURCE' = PROVIDER_RESOURCE]_vars

\* the cache still holds the first owned resource after a build with a
\* different owned resource
Wit_C13_FirstOwnedStays ==
    /\ Built = 2
    /\ inner[1].supplied.cow = "Owned"
    /\ inner[2].supplied.cow = "Owned"
    /\ inner[2].supplied.val # inner[1].supplied.val
    /\ PROVIDER_RESOURCE = inner[1].supplied.val

\* C14: every processor of a built provider has received set_resource exactly
\* once, as the k-th call for the k-th processor, with the resource the
\* provider's config holds after interning; no later step changes that.
Thm_C14_SetResourceOnce ==
    \A i \in Providers : \A k \in 1..Len(processor[i]) :
        /\ processor[i][k].set_resource = 1
        /\ processor[i][k].set_order = k
        /\ processor[i][k].resource = inner[i].config.resource
        /\ processor[i][k].resource # inner[i].supplied

\* a provider with two processors was shut down, flushed and torn down
Wit_C14_AfterLifecycle ==
    /\ Len(processor[1]) = 2
    /\ Len(call) = 2
    /\ call[1].op = "shutdown" /\ call[1].pc = "done"
    /\ call[2].op = "force_flush" /\ call[2].pc = "done"
    /\ task[1].pc = "done"

\* C15: the winning shutdown() invokes the processors' shutdown() in
\* collection order with at most one of them in flight: the next one is
\* invoked only when every earlier one has resolved.
Thm_C15_ShutdownSequential ==
    \A c \in Calls :
        call[c].op = "shutdown" /\ call[c].path = "winner" =>
            LET n == Len(processor[call[c].inner])
                inflight == Len(call[c].invoked) - Len(call[c].results)
            IN  /\ call[c].invoked = SubSeq(Indices(n), 1, Len(call[c].invoked))
                /\ inflight \in {0, 1}
                /\ inflight = 1 <=> call[c].pc = "await"
                /\ call[c].pc = "done" => Len(call[c].results) = n

\* the second processor's shutdown is in flight after the first one resolved
Wit_C15_SecondShutdownInFlight ==
    \E c \in Calls :
        /\ call[c].op = "shutdown" /\ call[c].pc = "await"
        /\ call[c].invoked = <<1, 2>> /\ Len(call[c].results) = 1

\* C16: a call that returned the "already shut down" error tells only that
\* the flag is true and that an earlier call won the exchange, finished or
\* not; and while a winner is shutting processors down, another shutdown()
\* call can be made and returns without waiting for it.
Thm_C16_LoserKnowsOnlyTheFlag ==
    /\ \A c \in Calls :
           call[c].op = "shutdown" /\ call[c].path = "loser" =>
               /\ call[c].pc = "done"
               /\ is_shutdown[call[c].flag]
               /\ \E w \in 1..(c - 1) :
                      /\ call[w].op = "shutdown" /\ call[w].path = "winner"
                      /\ call[w].flag = call[c].flag
    /\ \A w \in Calls :
           (/\ call[w].op = "shutdown" /\ call[w].path = "winner"
            /\ call[w].pc # "done"
            /\ Len(call) + Len(spans) < MaxOps)
               => ENABLED Shutdown(call[w].h)

\* the loser has returned its error while the winner has not invoked
\* shutdown() on any processor yet
Wit_C16_LoserReturnsFirst ==
    /\ Len(call) = 2
    /\ call[1].path = "winner" /\ call[1].pc = "loop" /\ call[1].invoked = <<>>
    /\ call[2].path = "loser" /\ call[2].pc = "done"
    /\ call[2].ret = AlreadyShutDown
    /\ \A k \in 1..Len(processor[1]) : ~processor[1][k].is_shutdown

\* the processors of provider i whose shutdown() fails in the teardown: the
\* ones configured to fail that no explicit shutdown() reached before
DropFailures(i) ==
    {k \in 1..Len(processor[i]) :
        ~processor[i][k].success /\ processor[i][k].shutdown_explicit = 0}

\* C17: the drop-triggered teardown reports to the global error handler one
\* error for each processor whose shutdown() failed, goes on to the
\* processors after a failing one, and changes no call's return value; no
\* call is pending while it runs.
Thm_C17_DropErrorsToHandler ==
    /\ [](task[1].pc # "none" =>
             LET resolved == IF task[1].pc = "done" THEN Len(processor[1])
                             ELSE task[1].idx - 1
             IN  /\ Len(handled_errors)
                        = Cardinality({k \in DropFailures(1) : k <= resolved})
                 /\ \A e \in 1..Len(handled_errors) :
                        handled_errors[e] = "cannot export"
                 /\ \A k \in 1..resolved : processor[1][k].shutdown_drop = 1
                 /\ \A c \in Calls : call[c].inner = 1 => call[c].pc = "done")
    /\ [][handled_errors' # handled_errors =>
              /\ call' = call
              /\ task[1].pc = "await"
              /\ task'[1].pc \in {"loop", "done"}]_vars

\* both processors failed in the teardown and the task went through both
Wit_C17_TwoReports ==
    /\ task[1].pc = "done"
    /\ DropFailures(1) = {1, 2}
    /\ handled_errors = <<"cannot export", "cannot export">>
    /\ \A k \in 1..2 : processor[1][k].shutdown_drop = 1

\* C18: while a handle of a provider is alive, span_processors() gives the
\* ordered collection that was built and config() the configuration that was
\* built; no step changes either for a provider that keeps a handle.
Thm_C18_CollectionImmutable ==
    /\ [](\A h \in 1..MaxHandles :
             Live(h) =>
                 /\ inner[handle[h].inner].live
                 /\ span_processors(handle[h])
                        = Indices(Len(processor[handle[h].inner])))
    /\ [][\A h \in 1..MaxHandles :
              Live(h)' =>
                  LET i == handle'[h].inner
                  IN  /\ inner'[i].processors = inner[i].processors
                      /\ inner'[i].config = inner[i].config
                      /\ Len(processor'[i]) = Len(processor[i])]_vars

\* a won and a lost shutdown() have returned and the one handle left still
\* gives both processors
Wit_C18_AfterShutdowns ==
    /\ Len(call) = 2
    /\ call[1].path = "winner" /\ call[1].pc = "done"
    /\ call[2].path = "loser" /\ call[2].pc = "done"
    /\ \E h \in 1..MaxHandles :
           /\ Live(h) /\ handle[h].owner = "user"
           /\ StrongCount(handle[h].inner) = 1
           /\ span_processors(handle[h]) = <<1, 2>>

\* C19: a processor whose shutdown() was invoked by an explicit shutdown()
\* call belongs to a provider whose flag is already true, and so does a
\* winner that has passed the exchange.
Thm_C19_FlagBeforeProcessors ==
    /\ \A i \in Providers : \A k \in 1..Len(processor[i]) :
           processor[i][k].shutdown_explicit > 0 => is_shutdown[i]
    /\ \A c \in Calls :
           call[c].op = "shutdown" /\ call[c].path = "winner" =>
               is_shutdown[call[c].flag]

\* the winner has set the flag and invoked nothing yet
Wit_C19_FlagSetNothingInvoked ==
    /\ is_shutdown[1]
    /\ Len(call) = 1
    /\ call[1].op = "shutdown" /\ call[1].path = "winner"
    /\ call[1].pc = "loop" /\ call[1].invoked = <<>>
    /\ Len(processor[1]) = 2
    /\ \A k \in 1..2 : processor[1][k].shutdown_explicit = 0

\* C20: a live tracer issued by a provider whose flag is true is bound to a
\* provider that reports is_shutdown(): it shares the flag or holds the
\* no-op provider.
Thm_C20_TracerSeesShutdown ==
    \A h \in 1..MaxHandles :
        Live(h) /\ handle[h].owner = "tracer" =>
            /\ handle[h].flag \in {handle[h].origin, NoopId}
            /\ is_shutdown[handle[h].origin] =>
                   TracerProvider_is_shutdown(handle[h])

\* a tracer issued before the shutdown is live while the winner, having set
\* the flag, is still shutting processors down
Wit_C20_TracerIssuedBefore ==
    /\ is_shutdown[1]
    /\ spans = <<>>
    /\ \E c \in Calls : call[c].path = "winner" /\ call[c].pc = "await"
    /\ \E h \in 1..MaxHandles :
           /\ Live(h) /\ handle[h].owner = "tracer" /\ handle[h].origin = 1
           /\ ~handle[h].post_shutdown
           /\ handle[h].flag = 1

\* the step is one of a force_flush() call: the call is made, invokes a
\* processor's force_flush() or takes its result
FlushStep ==
    \/ /\ Len(call') = Len(call) + 1
       /\ call'[Len(call')].op = "force_flush"
    \/ /\ Len(call') = Len(call)
       /\ \E c \in FlushCalls : call'[c] # call[c]

\* C21: force_flush() does not consult the shutdown flag and does not write
\* it: a call made when the flag is true starts with all N processors ahead
\* of it, a call with processors left can always invoke the next one whatever
\* the flag, a returned call has invoked N processors and holds N results,
\* and no step of a force_flush() call changes any flag.
Thm_C21_FlushIgnoresFlag ==
    /\ [](\A c \in FlushCalls :
             LET n == Len(processor[call[c].inner])
             IN  /\ (call[c].pc = "loop" /\ Len(call[c].invoked) < n)
                        => ENABLED FlushInvoke(c)
                 /\ call[c].pc = "done"
                        => Len(call[c].invoked) = n /\ Len(call[c].results) = n
                 /\ call[c].pc # "done" => Len(call[c].results) < n)
    /\ [][FlushStep =>
              /\ is_shutdown' = is_shutdown
              /\ processor' = processor
              /\ Len(call') > Len(call) =>
                     LET new == call'[Len(call')]
                     IN  /\ new.invoked = <<>> /\ new.results = <<>>
                         /\ new.pc = IF Len(processor[new.inner]) = 0
                                     THEN "done" ELSE "loop"]_vars

\* after a shutdown() that won and returned, a force_flush() has invoked both
\* processors, both already shut down, and returned two results
Wit_C21_FlushAfterShutdown ==
    /\ Len(call) = 2
    /\ call[1].op = "shutdown" /\ call[1].path = "winner" /\ call[1].pc = "done"
    /\ call[2].op = "force_flush" /\ call[2].pc = "done"
    /\ call[2].invoked = <<1, 2>> /\ Len(call[2].results) = 2
    /\ is_shutdown[1]
    /\ \A k \in 1..2 : processor[1][k].is_shutdown
    /\ task[1].pc = "none"

====
